---- MODULE Spec2Model ----
(***************************************************************************)
(* Library inventory backend: the ISBN validator (src/src/utils/           *)
(* validators.py), the repository (src/src/services/database.py), the      *)
(* catalog fetcher (src/src/services/google_books.py) and the request      *)
(* handlers (src/src/controllers/book_controller.py).                      *)
(*                                                                         *)
(* Python strings are modelled as sequences of one-character strings, so   *)
(* that strip(), upper() and the regular-expression filter are computed    *)
(* character by character.                                                 *)
(***************************************************************************)
EXTENDS Integers, Sequences, FiniteSets, TLC

VARIABLES
    isbn_in,    \* validator: the argument of the last validate_isbn call
    valid,      \* validator: what that call returned
    edits,      \* validator: how many edits produced isbn_in from its seed
    coll,       \* the book collection: its documents in natural order
    served,     \* how many requests have been accepted so far
    pc,         \* per worker: where its handler stands
    req,        \* per worker: the request (method, path isbn, JSON body)
    h_isbn,     \* per worker: the handler's local isbn
    exists,     \* per worker: what book_exists returned to the handler
    book_data,  \* per worker: the handler's local book_data
    success,    \* per worker: what the repository's write returned
    resp,       \* per worker: the HTTP status of the response, 0 before it
    trace,      \* per worker: the calls the handler has made, in order
    wrote,      \* per worker: how many of its steps changed the collection
    raised,     \* per worker: whether a store call of its handler raised
    fetched,    \* per worker: what its catalog lookup met, "none" before it
    q_pc,       \* read handlers: where the handler stands
    q_req,      \* read handlers: the request (route and query parameters)
    q_limit,    \* read handlers: the handler's local limit
    q_skip,     \* read handlers: the handler's local skip
    q_books,    \* read handlers: the page the repository returned
    q_total,    \* read handlers: the count the repository returned
    q_resp,     \* read handlers: the HTTP status of the response, 0 before it
    q_page,     \* read handlers: the pagination block of the response
    q_modified, \* read handlers: the collection changed since the request came
    q_failed,   \* read handlers: the count query of the request raised
    s_pc,       \* statistics: where the handler stands
    s_counts,   \* statistics: the counts the store has returned so far
    s_stats,    \* statistics: the dictionary of the response
    s_resp,     \* statistics: the HTTP status of the response, 0 before it
    s_modified, \* statistics: the collection changed since the request came
    s_writes    \* how many writes other requests have made to the collection

vvars == <<isbn_in, valid, edits>>
hvars ==
    <<coll, served, pc, req, h_isbn, exists, book_data, success, resp, trace, wrote,
      raised, fetched>>
qvars ==
    <<q_pc, q_req, q_limit, q_skip, q_books, q_total, q_resp, q_page, q_modified,
      q_failed>>
svars == <<s_pc, s_counts, s_stats, s_resp, s_modified, s_writes>>
vars == <<vvars, hvars, qvars, svars>>

(***************************************************************************)
(* Bounds                                                                  *)
(***************************************************************************)
\* how many single-character edits are applied to a seed input
MaxEdits == 1
\* how many requests the server accepts in one behaviour
MaxRequests == 3
\* how many books the collection of the read handlers holds at most
MaxBooks == 2
\* the largest total count the pagination block is computed for
MaxTotal == 120
\* how many books the collection holds at most when the statistics and the
\* read handlers begin to run beside other requests
MaxShelf == 3
\* how many writes other requests make to the collection in one behaviour
MaxWrites == 1

(***************************************************************************)
(* Characters                                                              *)
(***************************************************************************)
Digits == {"0", "1", "2", "3", "4", "5", "6", "7", "8", "9"}

\* the characters inputs are built from: digits, both cases of x, a
\* separator, a blank and a letter
Chars == Digits \cup {"X", "x", "-", " ", "a"}

\* the characters an edit writes
EditChars == {"0", "3", "7", "X", "x", "-", "a"}

\* int(c) for a decimal digit c
int(c) ==
    CASE c = "0" -> 0 [] c = "1" -> 1 [] c = "2" -> 2 [] c = "3" -> 3
      [] c = "4" -> 4 [] c = "5" -> 5 [] c = "6" -> 6 [] c = "7" -> 7
      [] c = "8" -> 8 [] c = "9" -> 9

\* str.isdigit() of one character
isdigit(c) == c \in Digits

\* str.upper() of one character
upper_char(c) ==
    IF c = "x" THEN "X" ELSE IF c = "a" THEN "A" ELSE c

\* str.upper()
upper(s) == [i \in 1..Len(s) |-> upper_char(s[i])]

\* re.sub(r'[^0-9X]', '', s)
re_sub_non_isbn(s) == SelectSeq(s, LAMBDA c : c \in Digits \cup {"X"})

(***************************************************************************)
(* validate_isbn10, validate_isbn13, validate_isbn                         *)
(***************************************************************************)
RECURSIVE isbn10_loop(_, _, _)
RECURSIVE isbn10_loop_accepts_x(_, _, _)
RECURSIVE isbn13_loop(_, _, _)
RECURSIVE isbn13_loop_swapped(_, _, _)

\* the loop with an X among the first nine characters valued 10
isbn10_loop_accepts_x(isbn, i, total) ==
    IF i = 9 THEN total
    ELSE IF isbn[i + 1] = "X"
         THEN isbn10_loop_accepts_x(isbn, i + 1, total + 10 * (10 - i))
    ELSE IF ~isdigit(isbn[i + 1]) THEN -1
    ELSE isbn10_loop_accepts_x(isbn, i + 1, total + int(isbn[i + 1]) * (10 - i))

\* for i in range(9): the weighted total of isbn[0..8], starting at index i
\* (0-based) with the running total; -1 stands for the early "return False"
isbn10_loop(isbn, i, total) ==
    IF i = 9 THEN total
    ELSE IF ~isdigit(isbn[i + 1]) THEN -1
    ELSE isbn10_loop(isbn, i + 1, total + int(isbn[i + 1]) * (10 - i))

\* validate_isbn10 with the modulus of validate_isbn13
validate_isbn10_mod_10(isbn) ==
    IF Len(isbn) # 10 THEN FALSE
    ELSE LET total == isbn10_loop(isbn, 0, 0)
             check_digit == isbn[10]
         IN  IF total = -1 THEN FALSE
             ELSE IF check_digit = "X" THEN (total + 10) % 10 = 0
             ELSE IF isdigit(check_digit) THEN (total + int(check_digit)) % 10 = 0
             ELSE FALSE

validate_isbn10(isbn) ==
    IF Len(isbn) # 10 THEN FALSE
    ELSE LET total == isbn10_loop(isbn, 0, 0)
             check_digit == isbn[10]
         IN  IF total = -1 THEN FALSE
             ELSE IF check_digit = "X" THEN (total + 10) % 11 = 0
             ELSE IF isdigit(check_digit) THEN (total + int(check_digit)) % 11 = 0
             ELSE FALSE

\* the loop with the multipliers 3,1,3,1,...
isbn13_loop_swapped(isbn, i, total) ==
    IF i = 12 THEN total
    ELSE isbn13_loop_swapped(isbn, i + 1,
             total + int(isbn[i + 1]) * (IF i % 2 = 0 THEN 3 ELSE 1))

\* for i in range(12): total += int(isbn[i]) * (1 if i % 2 == 0 else 3)
isbn13_loop(isbn, i, total) ==
    IF i = 12 THEN total
    ELSE isbn13_loop(isbn, i + 1,
             total + int(isbn[i + 1]) * (IF i % 2 = 0 THEN 1 ELSE 3))

\* the check digit without the outer "% 10"
isbn13_check_digit_no_wrap(total) == 10 - (total % 10)

\* check_digit = (10 - (total % 10)) % 10
isbn13_check_digit(total) == (10 - (total % 10)) % 10

validate_isbn13(isbn) ==
    IF Len(isbn) # 13 THEN FALSE
    ELSE IF ~(\A i \in 1..Len(isbn) : isdigit(isbn[i])) THEN FALSE
    ELSE isbn13_check_digit(isbn13_loop(isbn, 0, 0)) = int(isbn[13])

\* the cleaning without upper(): a lower-case x is stripped
clean_without_upper(isbn) == re_sub_non_isbn(isbn)

\* clean_isbn = re.sub(r'[^0-9X]', '', isbn.upper())
clean(isbn) == re_sub_non_isbn(upper(isbn))

validate_isbn(isbn) ==
    IF isbn = <<>> THEN FALSE
    ELSE LET clean_isbn == clean(isbn)
         IN  IF Len(clean_isbn) = 10 THEN validate_isbn10(clean_isbn)
             ELSE IF Len(clean_isbn) = 13 THEN validate_isbn13(clean_isbn)
             ELSE FALSE

(***************************************************************************)
(* The validator as a state machine: validate_isbn is called on a seed     *)
(* input and then on inputs that differ from the last one by one edit.     *)
(***************************************************************************)
ISBN13 == <<"9","7","8","0","4","3","9","7","0","8","1","8","0">>
ISBN13_HYPHENS ==
    <<"9","7","8","-","0","-","4","3","9","-","7","0","8","1","8","-","0">>
ISBN10 == <<"0","4","3","9","7","0","8","1","8","4">>
ISBN10_LOWER_X == <<"0","-","8","0","4","4","-","2","9","5","7","-","x">>
ISBN10_BAD == <<"0","4","3","9","7","0","8","1","8","5">>
SHORT == <<"1","2","3","4","5">>

Seeds == {ISBN13, ISBN13_HYPHENS, ISBN10, ISBN10_LOWER_X, ISBN10_BAD, SHORT}

replace_at(s, i, c) == [s EXCEPT ![i] = c]
insert_at(s, i, c) == SubSeq(s, 1, i - 1) \o <<c>> \o SubSeq(s, i, Len(s))
delete_at(s, i) == SubSeq(s, 1, i - 1) \o SubSeq(s, i + 1, Len(s))

VInit ==
    /\ isbn_in = <<>>
    /\ valid = validate_isbn(<<>>)
    /\ edits = 0

Validate(s, n) ==
    /\ isbn_in' = s
    /\ valid' = validate_isbn(s)
    /\ edits' = n

ValidateSeed ==
    /\ isbn_in = <<>>
    /\ \E s \in Seeds : Validate(s, 0)
    /\ UNCHANGED <<hvars, qvars, svars>>

ValidateReplaced ==
    /\ isbn_in # <<>> /\ edits < MaxEdits
    /\ \E i \in 1..Len(isbn_in), c \in EditChars :
          /\ c # isbn_in[i]
          /\ Validate(replace_at(isbn_in, i, c), edits + 1)
    /\ UNCHANGED <<hvars, qvars, svars>>

ValidateInserted ==
    /\ isbn_in # <<>> /\ edits < MaxEdits
    /\ \E i \in 1..(Len(isbn_in) + 1), c \in EditChars :
          Validate(insert_at(isbn_in, i, c), edits + 1)
    /\ UNCHANGED <<hvars, qvars, svars>>

ValidateDeleted ==
    /\ isbn_in # <<>> /\ edits < MaxEdits
    /\ \E i \in 1..Len(isbn_in) : Validate(delete_at(isbn_in, i), edits + 1)
    /\ UNCHANGED <<hvars, qvars, svars>>

VNext ==
    \/ ValidateSeed
    \/ ValidateReplaced
    \/ ValidateInserted
    \/ ValidateDeleted

(***************************************************************************)
(* Documents and dictionaries.  A Python dict is a function from keys to   *)
(* values; None and the empty dict are both falsy and are both written     *)
(* NoData.                                                                 *)
(***************************************************************************)
NoData == [k \in {} |-> <<>>]

falsy(d) == DOMAIN d = {}

\* dict.get(key, default)
get(d, k, default) == IF k \in DOMAIN d THEN d[k] ELSE default

\* d with the entries of e written over it
merge(d, e) ==
    [k \in DOMAIN d \cup DOMAIN e |-> IF k \in DOMAIN e THEN e[k] ELSE d[k]]

\* d without the key k
without(d, k) == [j \in DOMAIN d \ {k} |-> d[j]]

RECURSIVE strip(_)
\* str.strip(): blanks removed at both ends
strip(s) ==
    IF s = <<>> THEN s
    ELSE IF Head(s) = " " THEN strip(Tail(s))
    ELSE IF s[Len(s)] = " " THEN strip(SubSeq(s, 1, Len(s) - 1))
    ELSE s

READING_STATUSES == {"read", "unread", "in_progress"}

(***************************************************************************)
(* The document store (pymongo collection) with a unique index on isbn.    *)
(* Each operation returns the new collection and what the driver reports.  *)
(***************************************************************************)
\* the positions of the documents matching {"isbn": key}
matching(c, key) == {i \in 1..Len(c) : c[i].isbn = key}

\* collection.count_documents({"isbn": key})
count_documents(c, key) == Cardinality(matching(c, key))

\* collection.find_one({"isbn": key}): the first match or None
find_one(c, key) ==
    IF matching(c, key) = {} THEN NoData
    ELSE c[CHOOSE i \in matching(c, key) : \A j \in matching(c, key) : i <= j]

\* insert_one on a collection without the unique index
insert_one_no_index(c, doc) == [coll |-> Append(c, doc), error |-> "none"]

\* collection.insert_one(doc): DuplicateKeyError when the unique index on
\* isbn already holds doc's isbn
insert_one(c, doc) ==
    IF matching(c, doc.isbn) # {}
    THEN [coll |-> c, error |-> "DuplicateKeyError"]
    ELSE [coll |-> Append(c, doc), error |-> "none"]

\* update_one called with upsert=True: a document is inserted when none matches
update_one_upsert(c, key, data) ==
    IF matching(c, key) = {}
    THEN [coll |-> Append(c, merge([isbn |-> key], data)), matched_count |-> 0,
          error |-> "none"]
    ELSE LET i == CHOOSE i \in matching(c, key) : \A j \in matching(c, key) : i <= j
         IN  [coll |-> [c EXCEPT ![i] = merge(c[i], data)], matched_count |-> 1,
              error |-> "none"]

\* collection.update_one({"isbn": key}, {"$set": data}): the first match is
\* updated; a change that would break the unique index is refused
update_one(c, key, data) ==
    IF matching(c, key) = {} THEN [coll |-> c, matched_count |-> 0, error |-> "none"]
    ELSE LET i == CHOOSE i \in matching(c, key) : \A j \in matching(c, key) : i <= j
             doc == merge(c[i], data)
         IN  IF \E j \in 1..Len(c) : j # i /\ c[j].isbn = doc.isbn
             THEN [coll |-> c, matched_count |-> 0, error |-> "DuplicateKeyError"]
             ELSE [coll |-> [c EXCEPT ![i] = doc], matched_count |-> 1,
                   error |-> "none"]

\* delete_one with an empty filter: the first document is removed
delete_one_first_document(c, key) ==
    IF matching(c, key) = {} THEN [coll |-> c, deleted_count |-> 0]
    ELSE [coll |-> Tail(c), deleted_count |-> 1]

\* collection.delete_one({"isbn": key}): the first match is removed
delete_one(c, key) ==
    IF matching(c, key) = {} THEN [coll |-> c, deleted_count |-> 0]
    ELSE LET i == CHOOSE i \in matching(c, key) : \A j \in matching(c, key) : i <= j
         IN  [coll |-> SubSeq(c, 1, i - 1) \o SubSeq(c, i + 1, Len(c)),
              deleted_count |-> 1]

(***************************************************************************)
(* DatabaseService.  result is the method's return value; "raise" stands   *)
(* for an exception that leaves the method.                                *)
(***************************************************************************)
\* add_book on a store that does not refuse a duplicate isbn
add_book_no_unique_index(c, data) ==
    LET doc == IF "reading_status" \notin DOMAIN data
               THEN merge(data, [reading_status |-> "unread"]) ELSE data
    IN  [coll |-> insert_one_no_index(c, doc).coll, result |-> "True"]

\* add_book writing over the record that holds the isbn
add_book_overwrites(c, data) ==
    LET doc == IF "reading_status" \notin DOMAIN data
               THEN merge(data, [reading_status |-> "unread"]) ELSE data
        held == matching(c, doc.isbn)
    IN  IF held # {}
        THEN [coll |-> [i \in 1..Len(c) |-> IF i \in held THEN doc ELSE c[i]],
              result |-> "False"]
        ELSE [coll |-> Append(c, doc), result |-> "True"]

add_book(c, data) ==
    LET doc == IF "reading_status" \notin DOMAIN data
               THEN merge(data, [reading_status |-> "unread"]) ELSE data
        r == insert_one(c, doc)
    IN  IF r.error = "DuplicateKeyError"
        THEN [coll |-> r.coll, result |-> "False"]
        ELSE [coll |-> r.coll, result |-> "True"]

\* update_book without the removal of 'isbn' from the update
update_book_sets_isbn(c, key, updated_data) ==
    LET r == update_one(c, key, updated_data)
    IN  IF r.error # "none" THEN [coll |-> r.coll, result |-> "raise"]
        ELSE IF r.matched_count > 0 THEN [coll |-> r.coll, result |-> "True"]
        ELSE [coll |-> r.coll, result |-> "False"]

update_book(c, key, updated_data) ==
    LET data == IF "isbn" \in DOMAIN updated_data
                THEN without(updated_data, "isbn") ELSE updated_data
        r == update_one(c, key, data)
    IN  IF r.error # "none" THEN [coll |-> r.coll, result |-> "raise"]
        ELSE IF r.matched_count > 0 THEN [coll |-> r.coll, result |-> "True"]
        ELSE [coll |-> r.coll, result |-> "False"]

delete_book(c, key) ==
    LET r == delete_one(c, key)
    IN  IF r.deleted_count > 0 THEN [coll |-> r.coll, result |-> "True"]
        ELSE [coll |-> r.coll, result |-> "False"]

book_exists(c, key) == count_documents(c, key) > 0

get_book_by_isbn(c, key) == find_one(c, key)

update_reading_status(c, key, status) ==
    IF status \notin READING_STATUSES THEN [coll |-> c, result |-> "raise"]
    ELSE LET r == update_one(c, key, [reading_status |-> status])
         IN  IF r.matched_count > 0 THEN [coll |-> r.coll, result |-> "True"]
             ELSE [coll |-> r.coll, result |-> "False"]

(***************************************************************************)
(* GoogleBooksService                                                      *)
(***************************************************************************)
\* _get_cover_image: the first of the five sizes present in imageLinks
get_cover_image(volume) ==
    LET image_links == get(volume, "imageLinks", NoData)
        sizes == <<"extraLarge", "large", "medium", "small", "thumbnail">>
        present == {i \in 1..Len(sizes) : sizes[i] \in DOMAIN image_links}
    IN  IF present = {} THEN ""
        ELSE image_links[sizes[CHOOSE i \in present : \A j \in present : i <= j]]

\* _map_book_data; an integer or None (page_count) is written as a sequence
\* of one or no element
map_book_data(volume, key) ==
    [isbn |-> key,
     title |-> get(volume, "title", <<>>),
     authors |-> get(volume, "authors", <<>>),
     description |-> get(volume, "description", <<>>),
     categories |-> get(volume, "categories", <<>>),
     page_count |-> get(volume, "pageCount", <<>>),
     cover_image |-> get_cover_image(volume),
     published_date |-> get(volume, "publishedDate", ""),
     publisher |-> get(volume, "publisher", ""),
     language |-> get(volume, "language", "")]

\* the exception the lookup meets inside get_book_by_isbn's try block:
\* requests.get and raise_for_status raise a RequestException, response.json()
\* a JSONDecodeError, data['items'][0]['volumeInfo'] a KeyError and the
\* membership test on an imageLinks that is null a TypeError
fetch_exception(answer) ==
    CASE answer.kind \in {"network_error", "http_error"} -> "RequestException"
      [] answer.kind = "unparsable" -> "JSONDecodeError"
      [] answer.kind \in {"no_items", "no_volume_info"} -> "KeyError"
      [] answer.kind = "bad_image_links" -> "TypeError"
      [] OTHER -> "none"

Exceptions == {"RequestException", "JSONDecodeError", "KeyError", "TypeError"}

\* get_book_by_isbn with its first two except clauses only
fetch_catches_listed_only(exception) ==
    exception \in {"RequestException", "KeyError"}

\* the except clauses of get_book_by_isbn: RequestException, KeyError and
\* then Exception, which holds every exception
fetch_catches(exception) ==
    \/ exception = "RequestException"
    \/ exception = "KeyError"
    \/ exception \in Exceptions

\* whether get_book_by_isbn returns or lets an exception out
fetch_result(answer) ==
    IF fetch_exception(answer) # "none" /\ ~fetch_catches(fetch_exception(answer))
    THEN "raise" ELSE "return"

\* get_book_by_isbn of the service, given what the catalog answered: None on
\* a failed request, on totalItems = 0 and on a body without items
fetch_book_by_isbn(answer, key) ==
    IF answer.kind # "items" THEN NoData
    ELSE map_book_data(answer.volumeInfo, key)

(***************************************************************************)
(* Requests.  A request is a method, the isbn of its path (none for the    *)
(* two POSTs) and its JSON body.                                           *)
(***************************************************************************)
Workers == {"w1", "w2"}

TITLE == <<"D", "u", "n", "e">>
TITLE_PADDED == <<" ", "D", "u", "n", "e", " ">>
TITLE_NEW == <<"E", "m", "m", "a">>
AUTHOR == <<"H", "e", "r", "b", "e", "r", "t">>
AUTHORS == <<AUTHOR>>
DESCRIPTION == <<"s", "a", "n", "d">>
CATEGORIES == <<<<"S", "F">>>>

ISBN13_PADDED_HYPHENS == <<" ">> \o ISBN13_HYPHENS \o <<" ">>

VOLUME ==
    [title |-> TITLE, authors |-> AUTHORS, description |-> DESCRIPTION,
     categories |-> CATEGORIES, pageCount |-> <<412>>,
     imageLinks |-> [small |-> "small.jpg", thumbnail |-> "thumbnail.jpg"],
     publishedDate |-> "1965", publisher |-> "Chilton", language |-> "en"]

\* what the catalog may answer to one lookup: no answer (network error or
\* timeout), an HTTP error status, a body that is not JSON, a body with
\* totalItems = 0, a body without items, an item without volumeInfo, a
\* volumeInfo whose imageLinks is null, or a well-formed first item
CatalogAnswers ==
    {[kind |-> k] :
        k \in {"network_error", "http_error", "unparsable", "zero", "no_items",
               "no_volume_info", "bad_image_links"}}
    \cup {[kind |-> "items", volumeInfo |-> VOLUME]}

PostRequests ==
    {[op |-> "post", path |-> <<>>, body |-> b] :
        b \in {NoData, [isbn |-> ISBN13], [isbn |-> ISBN13_PADDED_HYPHENS],
               [isbn |-> SHORT]}}

ManualRequests ==
    {[op |-> "manual", path |-> <<>>, body |-> b] :
        b \in {NoData,
               [isbn |-> ISBN13, authors |-> [list |-> AUTHORS]],
               [isbn |-> SHORT, title |-> TITLE, authors |-> [list |-> AUTHORS]],
               [isbn |-> ISBN13, title |-> TITLE_PADDED,
                authors |-> [list |-> AUTHORS]],
               [isbn |-> ISBN13, title |-> TITLE, authors |-> [list |-> AUTHORS],
                reading_status |-> "finished"],
               [isbn |-> ISBN13_PADDED_HYPHENS, title |-> TITLE,
                authors |-> [str |-> AUTHOR], reading_status |-> "read"]}}

PutRequests ==
    {[op |-> "put", path |-> k, body |-> b] :
        k \in {ISBN13, ISBN13_HYPHENS},
        b \in {NoData, [reading_status |-> "finished"],
               [title |-> TITLE_NEW, isbn |-> ISBN13_HYPHENS]}}
    \cup {[op |-> "put", path |-> SHORT, body |-> [title |-> TITLE_NEW]]}

DeleteRequests ==
    {[op |-> "delete", path |-> k, body |-> NoData] :
        k \in {ISBN13, ISBN13_HYPHENS, SHORT}}

StatusRequests ==
    {[op |-> "status", path |-> ISBN13, body |-> b] :
        b \in {NoData, [reading_status |-> "read"], [reading_status |-> "finished"]}}
    \cup {[op |-> "status", path |-> k, body |-> [reading_status |-> "in_progress"]] :
            k \in {ISBN13_HYPHENS, SHORT}}

GetRequests ==
    {[op |-> "get", path |-> k, body |-> NoData] : k \in {ISBN13, ISBN13_HYPHENS, SHORT}}

Requests ==
    PostRequests \cup ManualRequests \cup PutRequests \cup DeleteRequests
    \cup StatusRequests \cup GetRequests

NoRequest == [op |-> "none", path |-> <<>>, body |-> NoData]

(***************************************************************************)
(* The handlers' common frame: api.abort(code) raises inside the handler's *)
(* try block; the except clause re-raises the codes it lists and turns     *)
(* every other exception into a 500.                                       *)
(***************************************************************************)
\* the except clause of BookList.post written like that of Book.put
reraised_without_409(op) ==
    CASE op = "post" -> {400, 404}
      [] op = "manual" -> {400, 409}
      [] op \in {"get", "put", "delete", "status"} -> {400, 404}

\* the except clauses of Book.put, Book.delete and BookStatus.put without 404
reraised_without_404(op) ==
    CASE op = "post" -> {400, 404, 409}
      [] op = "manual" -> {400, 409}
      [] op = "get" -> {400, 404}
      [] op \in {"put", "delete", "status"} -> {400}

reraised(op) ==
    CASE op = "post" -> {400, 404, 409}
      [] op = "manual" -> {400, 409}
      [] op \in {"get", "put", "delete", "status"} -> {400, 404}

abort_code(op, code) == IF code \in reraised(op) THEN code ELSE 500

Goto(w, next) ==
    /\ pc' = [pc EXCEPT ![w] = next]
    /\ resp' = resp

Respond(w, code) ==
    /\ pc' = [pc EXCEPT ![w] = "done"]
    /\ resp' = [resp EXCEPT ![w] = code]

Abort(w, code) == Respond(w, abort_code(req[w].op, code))

Call(w, name) == trace' = [trace EXCEPT ![w] = Append(@, name)]

Store(w, c) ==
    /\ coll' = c
    /\ wrote' = [wrote EXCEPT ![w] = IF c # coll THEN @ + 1 ELSE @]

NoStore == UNCHANGED <<coll, wrote>>

HIdle ==
    /\ served = 0
    /\ pc = [w \in Workers |-> "idle"]
    /\ req = [w \in Workers |-> NoRequest]
    /\ h_isbn = [w \in Workers |-> <<>>]
    /\ exists = [w \in Workers |-> FALSE]
    /\ book_data = [w \in Workers |-> NoData]
    /\ success = [w \in Workers |-> "none"]
    /\ resp = [w \in Workers |-> 0]
    /\ trace = [w \in Workers |-> <<>>]
    /\ wrote = [w \in Workers |-> 0]
    /\ raised = [w \in Workers |-> FALSE]
    /\ fetched = [w \in Workers |-> "none"]

HInit ==
    /\ coll = <<>>
    /\ HIdle

\* the server accepts a request and hands it to an idle worker
Receive(w) ==
    /\ pc[w] = "idle"
    /\ served < MaxRequests
    /\ \E r \in Requests : req' = [req EXCEPT ![w] = r]
    /\ served' = served + 1
    /\ pc' = [pc EXCEPT ![w] = "validate"]
    /\ UNCHANGED <<coll, h_isbn, exists, book_data, success, resp, trace, wrote,
                   raised, fetched>>
    /\ UNCHANGED <<vvars, qvars, svars>>

\* the response is sent and the worker is free again
Reply(w) ==
    /\ pc[w] = "done"
    /\ pc' = [pc EXCEPT ![w] = "idle"]
    /\ req' = [req EXCEPT ![w] = NoRequest]
    /\ h_isbn' = [h_isbn EXCEPT ![w] = <<>>]
    /\ exists' = [exists EXCEPT ![w] = FALSE]
    /\ book_data' = [book_data EXCEPT ![w] = NoData]
    /\ success' = [success EXCEPT ![w] = "none"]
    /\ resp' = [resp EXCEPT ![w] = 0]
    /\ trace' = [trace EXCEPT ![w] = <<>>]
    /\ wrote' = [wrote EXCEPT ![w] = 0]
    /\ raised' = [raised EXCEPT ![w] = FALSE]
    /\ fetched' = [fetched EXCEPT ![w] = "none"]
    /\ UNCHANGED <<coll, served>>
    /\ UNCHANGED <<vvars, qvars, svars>>

(***************************************************************************)
(* BookList.post: add a book by ISBN                                       *)
(***************************************************************************)
post_validate(w) ==
    /\ pc[w] = "validate" /\ req[w].op = "post"
    /\ LET data == req[w].body
       IN  IF falsy(data) \/ "isbn" \notin DOMAIN data
           THEN Abort(w, 400) /\ UNCHANGED <<h_isbn, trace>>
           ELSE /\ h_isbn' = [h_isbn EXCEPT ![w] = strip(data.isbn)]
                /\ Call(w, "validate_isbn")
                /\ IF ~validate_isbn(strip(data.isbn))
                   THEN Abort(w, 400) ELSE Goto(w, "exists")
    /\ NoStore /\ UNCHANGED raised
    /\ UNCHANGED <<served, success, req, exists, book_data>>
    /\ UNCHANGED fetched
    /\ UNCHANGED <<vvars, qvars, svars>>

\* the book_data the handler prepares from the body; the body's authors is
\* a JSON list, written [list |-> <<...>>], or a JSON string, [str |-> "..."]
manual_book_data(data, key) ==
    LET status == get(data, "reading_status", "unread")
    IN  [isbn |-> key,
         title |-> strip(data.title),
         authors |-> IF "list" \in DOMAIN data.authors THEN data.authors.list
                     ELSE <<data.authors.str>>,
         description |-> get(data, "description", <<>>),
         categories |-> get(data, "categories", <<>>),
         page_count |-> get(data, "page_count", <<>>),
         cover_image |-> get(data, "cover_image", ""),
         published_date |-> get(data, "published_date", ""),
         publisher |-> get(data, "publisher", ""),
         language |-> get(data, "language", "en"),
         reading_status |-> IF status \notin READING_STATUSES THEN "unread"
                            ELSE status]

\* the existence check of the two POST handlers; ManualBook.post goes on to
\* build its book_data from the body
add_book_exists(w) ==
    /\ pc[w] = "exists" /\ req[w].op \in {"post", "manual"}
    /\ \E fails \in BOOLEAN :
          /\ raised' = [raised EXCEPT ![w] = fails]
          /\ IF fails THEN Abort(w, 500) /\ UNCHANGED <<exists, book_data>>
             ELSE /\ exists' = [exists EXCEPT ![w] = book_exists(coll, h_isbn[w])]
                  /\ IF book_exists(coll, h_isbn[w])
                     THEN Abort(w, 409) /\ UNCHANGED book_data
                     ELSE IF req[w].op = "post"
                     THEN Goto(w, "fetch") /\ UNCHANGED book_data
                     ELSE /\ Goto(w, "insert")
                          /\ book_data' = [book_data EXCEPT ![w] =
                                 manual_book_data(req[w].body, h_isbn[w])]
    /\ Call(w, "book_exists")
    /\ NoStore
    /\ UNCHANGED <<served, success, req, h_isbn>>
    /\ UNCHANGED fetched
    /\ UNCHANGED <<vvars, qvars, svars>>

post_fetch(w) ==
    /\ pc[w] = "fetch" /\ req[w].op = "post"
    /\ \E answer \in CatalogAnswers :
          LET data == fetch_book_by_isbn(answer, h_isbn[w])
          IN  /\ fetched' = [fetched EXCEPT ![w] = answer.kind]
              /\ IF fetch_result(answer) = "raise"
                 THEN Abort(w, 500) /\ UNCHANGED book_data
                 ELSE /\ book_data' = [book_data EXCEPT ![w] = data]
                      /\ IF falsy(data) THEN Abort(w, 404) ELSE Goto(w, "insert")
    /\ Call(w, "GoogleBooksService.get_book_by_isbn")
    /\ NoStore /\ UNCHANGED raised
    /\ UNCHANGED <<served, success, req, h_isbn, exists>>
    /\ UNCHANGED <<vvars, qvars, svars>>

\* db_service.add_book(book_data) of the two POST handlers
add_book_insert(w) ==
    /\ pc[w] = "insert" /\ req[w].op \in {"post", "manual"}
    /\ \E fails \in BOOLEAN :
          /\ raised' = [raised EXCEPT ![w] = fails]
          /\ IF fails THEN Abort(w, 500) /\ NoStore /\ UNCHANGED success
             ELSE LET r == add_book(coll, book_data[w])
                  IN  /\ Store(w, r.coll)
                      /\ success' = [success EXCEPT ![w] = r.result]
                      /\ IF r.result = "True" THEN Respond(w, 201) ELSE Abort(w, 500)
    /\ Call(w, "add_book")
    /\ UNCHANGED <<served, req, h_isbn, exists, book_data>>
    /\ UNCHANGED fetched
    /\ UNCHANGED <<vvars, qvars, svars>>

(***************************************************************************)
(* ManualBook.post: add a book with the details of the body                *)
(***************************************************************************)
manual_validate(w) ==
    /\ pc[w] = "validate" /\ req[w].op = "manual"
    /\ LET data == req[w].body
           missing == {f \in {"isbn", "title", "authors"} :
                          \/ f \notin DOMAIN data
                          \/ f \in {"isbn", "title"} /\ data[f] = <<>>
                          \/ f = "authors" /\ data[f] \in {[list |-> <<>>], [str |-> <<>>]}}
       IN  IF falsy(data) \/ missing # {}
           THEN Abort(w, 400) /\ UNCHANGED <<h_isbn, trace>>
           ELSE /\ h_isbn' = [h_isbn EXCEPT ![w] = strip(data.isbn)]
                /\ Call(w, "validate_isbn")
                /\ IF ~validate_isbn(strip(data.isbn))
                   THEN Abort(w, 400) ELSE Goto(w, "exists")
    /\ NoStore /\ UNCHANGED raised
    /\ UNCHANGED <<served, success, req, exists, book_data>>
    /\ UNCHANGED fetched
    /\ UNCHANGED <<vvars, qvars, svars>>

(***************************************************************************)
(* Book.get: one book by its ISBN                                          *)
(***************************************************************************)
get_validate(w) ==
    /\ pc[w] = "validate" /\ req[w].op = "get"
    /\ h_isbn' = [h_isbn EXCEPT ![w] = req[w].path]
    /\ IF ~validate_isbn(req[w].path) THEN Abort(w, 400) ELSE Goto(w, "lookup")
    /\ Call(w, "validate_isbn")
    /\ NoStore /\ UNCHANGED raised
    /\ UNCHANGED <<served, success, req, exists, book_data>>
    /\ UNCHANGED fetched
    /\ UNCHANGED <<vvars, qvars, svars>>

\* book = db_service.get_book_by_isbn(isbn), which returns None when the
\* store raises as when it finds nothing
get_lookup(w) ==
    /\ pc[w] = "lookup" /\ req[w].op = "get"
    /\ \E fails \in BOOLEAN :
          LET book == IF fails THEN NoData ELSE get_book_by_isbn(coll, h_isbn[w])
          IN  /\ raised' = [raised EXCEPT ![w] = fails]
              /\ book_data' = [book_data EXCEPT ![w] = book]
              /\ IF ~falsy(book) THEN Respond(w, 200) ELSE Abort(w, 404)
    /\ Call(w, "db_service.get_book_by_isbn")
    /\ NoStore
    /\ UNCHANGED <<served, success, req, h_isbn, exists>>
    /\ UNCHANGED fetched
    /\ UNCHANGED <<vvars, qvars, svars>>

(***************************************************************************)
(* Book.put: partial update                                                *)
(***************************************************************************)
path_validate(w) ==
    /\ pc[w] = "validate" /\ req[w].op \in {"put", "delete", "status"}
    /\ h_isbn' = [h_isbn EXCEPT ![w] = req[w].path]
    /\ LET data == req[w].body
           op == req[w].op
       IN  IF ~validate_isbn(req[w].path) THEN Abort(w, 400)
           ELSE IF op = "put" /\ falsy(data) THEN Abort(w, 400)
           ELSE IF op = "status" /\ (falsy(data) \/ "reading_status" \notin DOMAIN data)
                THEN Abort(w, 400)
           ELSE IF op = "status" /\ data.reading_status \notin READING_STATUSES
                THEN Abort(w, 400)
           ELSE Goto(w, "exists")
    /\ Call(w, "validate_isbn")
    /\ NoStore /\ UNCHANGED raised
    /\ UNCHANGED <<served, success, req, exists, book_data>>
    /\ UNCHANGED fetched
    /\ UNCHANGED <<vvars, qvars, svars>>

\* the existence check of the update, delete and status handlers
path_book_exists(w) ==
    /\ pc[w] = "exists" /\ req[w].op \in {"put", "delete", "status"}
    /\ \E fails \in BOOLEAN :
          /\ raised' = [raised EXCEPT ![w] = fails]
          /\ IF fails THEN Abort(w, 500) /\ UNCHANGED exists
             ELSE /\ exists' = [exists EXCEPT ![w] = book_exists(coll, h_isbn[w])]
                  /\ IF ~book_exists(coll, h_isbn[w]) THEN Abort(w, 404)
                     ELSE Goto(w, "mutate")
    /\ Call(w, "book_exists")
    /\ NoStore
    /\ UNCHANGED <<served, success, req, h_isbn, book_data>>
    /\ UNCHANGED fetched
    /\ UNCHANGED <<vvars, qvars, svars>>

put_update_book(w) ==
    /\ pc[w] = "mutate" /\ req[w].op = "put"
    /\ \E fails \in BOOLEAN :
          /\ raised' = [raised EXCEPT ![w] = fails]
          /\ IF fails THEN Abort(w, 500) /\ NoStore /\ UNCHANGED success
             ELSE LET r == update_book(coll, h_isbn[w], req[w].body)
                  IN  /\ Store(w, r.coll)
                      /\ success' = [success EXCEPT ![w] = r.result]
                      /\ IF r.result = "True" THEN Goto(w, "reload") ELSE Abort(w, 500)
    /\ Call(w, "update_book")
    /\ UNCHANGED <<served, req, h_isbn, exists, book_data>>
    /\ UNCHANGED fetched
    /\ UNCHANGED <<vvars, qvars, svars>>

\* updated_book = db_service.get_book_by_isbn(isbn); updated_book['_id'] = ...
\* get_book_by_isbn returns None when the lookup raises or finds nothing, and
\* the subscript then raises TypeError
put_reload(w) ==
    /\ pc[w] = "reload" /\ req[w].op = "put"
    /\ \E fails \in BOOLEAN :
          LET updated_book == IF fails THEN NoData
                              ELSE get_book_by_isbn(coll, h_isbn[w])
          IN  /\ raised' = [raised EXCEPT ![w] = fails]
              /\ book_data' = [book_data EXCEPT ![w] = updated_book]
              /\ IF falsy(updated_book) THEN Abort(w, 500) ELSE Respond(w, 200)
    /\ Call(w, "db_service.get_book_by_isbn")
    /\ NoStore
    /\ UNCHANGED <<served, success, req, h_isbn, exists>>
    /\ UNCHANGED fetched
    /\ UNCHANGED <<vvars, qvars, svars>>

(***************************************************************************)
(* Book.delete                                                             *)
(***************************************************************************)
delete_delete_book(w) ==
    /\ pc[w] = "mutate" /\ req[w].op = "delete"
    /\ \E fails \in BOOLEAN :
          /\ raised' = [raised EXCEPT ![w] = fails]
          /\ IF fails THEN Abort(w, 500) /\ NoStore /\ UNCHANGED success
             ELSE LET r == delete_book(coll, h_isbn[w])
                  IN  /\ Store(w, r.coll)
                      /\ success' = [success EXCEPT ![w] = r.result]
                      /\ IF r.result = "True" THEN Respond(w, 200) ELSE Abort(w, 500)
    /\ Call(w, "delete_book")
    /\ UNCHANGED <<served, req, h_isbn, exists, book_data>>
    /\ UNCHANGED fetched
    /\ UNCHANGED <<vvars, qvars, svars>>

(***************************************************************************)
(* BookStatus.put                                                          *)
(***************************************************************************)
status_update_reading_status(w) ==
    /\ pc[w] = "mutate" /\ req[w].op = "status"
    /\ \E fails \in BOOLEAN :
          /\ raised' = [raised EXCEPT ![w] = fails]
          /\ IF fails THEN Abort(w, 500) /\ NoStore /\ UNCHANGED success
             ELSE LET r == update_reading_status(coll, h_isbn[w],
                                                 req[w].body.reading_status)
                  IN  /\ Store(w, r.coll)
                      /\ success' = [success EXCEPT ![w] = r.result]
                      /\ IF r.result = "True" THEN Respond(w, 200) ELSE Abort(w, 500)
    /\ Call(w, "update_reading_status")
    /\ UNCHANGED <<served, req, h_isbn, exists, book_data>>
    /\ UNCHANGED fetched
    /\ UNCHANGED <<vvars, qvars, svars>>

HNext ==
    \E w \in Workers :
        \/ Receive(w)
        \/ Reply(w)
        \/ post_validate(w)
        \/ add_book_exists(w)
        \/ post_fetch(w)
        \/ add_book_insert(w)
        \/ manual_validate(w)
        \/ path_validate(w)
        \/ path_book_exists(w)
        \/ put_update_book(w)
        \/ put_reload(w)
        \/ delete_delete_book(w)
        \/ status_update_reading_status(w)
        \/ get_validate(w)
        \/ get_lookup(w)

(***************************************************************************)
(* Regular expressions of the store's $regex operator: an unanchored       *)
(* search, in which a dot stands for any one character and, with the       *)
(* option i, letters match in either case.                                 *)
(***************************************************************************)
UPPER ==
    <<"A", "B", "C", "D", "E", "F", "G", "H", "I", "J", "K", "L", "M",
      "N", "O", "P", "Q", "R", "S", "T", "U", "V", "W", "X", "Y", "Z">>
LOWER ==
    <<"a", "b", "c", "d", "e", "f", "g", "h", "i", "j", "k", "l", "m",
      "n", "o", "p", "q", "r", "s", "t", "u", "v", "w", "x", "y", "z">>

\* the lower-case form of a character
fold(c) ==
    IF \E i \in 1..Len(UPPER) : UPPER[i] = c
    THEN LOWER[CHOOSE i \in 1..Len(UPPER) : UPPER[i] = c]
    ELSE c

regex_char(p, c, options) ==
    \/ p = "."
    \/ p = c
    \/ options = "i" /\ fold(p) = fold(c)

\* whether the pattern matches somewhere in the text
regex_search(pattern, text, options) ==
    \E i \in 1..(Len(text) - Len(pattern) + 1) :
        \A k \in 1..Len(pattern) : regex_char(pattern[k], text[i + k - 1], options)

(***************************************************************************)
(* Store queries.  A filter is a dict: every key must hold; $or and $and   *)
(* carry a list of filters, any other key a condition on that field.       *)
(***************************************************************************)
\* the fields a document holds as a list of strings
ArrayFields == {"authors", "categories"}

regex_condition(pattern) == [regex |-> pattern, options |-> "i"]

\* a condition on a field: a $regex holds for a string it matches and for a
\* list having an element it matches; a plain value holds when equal
field_matches(doc, field, cond) ==
    /\ field \in DOMAIN doc
    /\ IF "regex" \in DOMAIN cond
       THEN IF field \in ArrayFields
            THEN \E i \in 1..Len(doc[field]) :
                    regex_search(cond.regex, doc[field][i], cond.options)
            ELSE regex_search(cond.regex, doc[field], cond.options)
       ELSE doc[field] = cond.eq

RECURSIVE mongo_matches(_, _)
mongo_matches(doc, filter) ==
    \A k \in DOMAIN filter :
        IF k = "$or"
        THEN \E i \in 1..Len(filter[k]) : mongo_matches(doc, filter[k][i])
        ELSE IF k = "$and"
        THEN \A i \in 1..Len(filter[k]) : mongo_matches(doc, filter[k][i])
        ELSE field_matches(doc, k, filter[k])

\* collection.find(filter): the matching documents in natural order
find(c, filter) == SelectSeq(c, LAMBDA doc : mongo_matches(doc, filter))

\* cursor.skip(n)
cursor_skip(s, n) == SubSeq(s, n + 1, Len(s))

\* cursor.limit(n); a limit of 0 is no limit
cursor_limit(s, n) == IF n = 0 \/ n >= Len(s) THEN s ELSE SubSeq(s, 1, n)

\* collection.count_documents(filter)
count_documents_where(c, filter) == Len(find(c, filter))

(***************************************************************************)
(* DatabaseService: the read operations.  A criterion that is None or ''   *)
(* is the empty sequence.  books is the returned list; result is "raise"   *)
(* when an exception leaves the method.                                    *)
(***************************************************************************)
\* the $or of the general query over title, authors and description
query_clause(query) ==
    "$or" :> <<[title |-> regex_condition(query)],
               [authors |-> regex_condition(query)],
               [description |-> regex_condition(query)]>>

\* search_books with the general query stored under the key 'title'
search_filters_query_under_title(query, title, author, category) ==
    LET f1 == IF query # <<>> THEN [title |-> regex_condition(query)] ELSE NoData
        f2 == IF title # <<>> THEN merge(f1, [title |-> regex_condition(title)])
              ELSE f1
        f3 == IF author # <<>> THEN merge(f2, [authors |-> regex_condition(author)])
              ELSE f2
    IN  IF category # <<>> THEN merge(f3, [categories |-> regex_condition(category)])
        ELSE f3

\* the filters dict search_books builds
search_filters(query, title, author, category) ==
    LET f1 == IF query # <<>> THEN query_clause(query) ELSE NoData
        f2 == IF title # <<>> THEN merge(f1, [title |-> regex_condition(title)])
              ELSE f1
        f3 == IF author # <<>> THEN merge(f2, [authors |-> regex_condition(author)])
              ELSE f2
    IN  IF category # <<>> THEN merge(f3, [categories |-> regex_condition(category)])
        ELSE f3

\* find(filter).skip(skip).limit(limit); skip() refuses a negative number
find_page(c, filter, limit, skip) ==
    IF skip < 0 THEN [books |-> <<>>, result |-> "raise"]
    ELSE [books |-> cursor_limit(cursor_skip(find(c, filter), skip), limit),
          result |-> "ok"]

\* search_books without the early return for an empty filters dict
search_books_without_early_return(c, query, title, author, category, limit, skip) ==
    find_page(c, search_filters(query, title, author, category), limit, skip)

search_books(c, query, title, author, category, limit, skip) ==
    LET filters == search_filters(query, title, author, category)
    IN  IF falsy(filters) THEN [books |-> <<>>, result |-> "ok"]
        ELSE find_page(c, filters, limit, skip)

\* the search_filter search_books_count builds from its list of filters
search_count_filter(query, title, author, category) ==
    LET filters ==
            (IF query # <<>> THEN <<query_clause(query)>> ELSE <<>>)
            \o (IF title # <<>> THEN <<[title |-> regex_condition(title)]>> ELSE <<>>)
            \o (IF author # <<>> THEN <<[authors |-> regex_condition(author)]>>
                ELSE <<>>)
            \o (IF category # <<>> THEN <<[categories |-> regex_condition(category)]>>
                ELSE <<>>)
    IN  IF filters # <<>>
        THEN IF Len(filters) > 1 THEN "$and" :> filters ELSE filters[1]
        ELSE NoData

search_books_count(c, query, title, author, category) ==
    count_documents_where(c, search_count_filter(query, title, author, category))

get_all_books(c, limit, skip) == find_page(c, NoData, limit, skip)

get_total_books_count(c) == count_documents_where(c, NoData)

get_books_by_author(c, author, limit, skip) ==
    find_page(c, [authors |-> regex_condition(author)], limit, skip)

get_books_by_author_count(c, author) ==
    count_documents_where(c, [authors |-> regex_condition(author)])

get_books_by_category(c, category, limit, skip) ==
    find_page(c, [categories |-> regex_condition(category)], limit, skip)

get_books_by_category_count(c, category) ==
    count_documents_where(c, [categories |-> regex_condition(category)])

get_books_by_status(c, status, limit, skip) ==
    IF status \notin READING_STATUSES THEN [books |-> <<>>, result |-> "raise"]
    ELSE find_page(c, [reading_status |-> [eq |-> status]], limit, skip)

get_books_by_status_count(c, status) ==
    count_documents_where(c, [reading_status |-> [eq |-> status]])

(***************************************************************************)
(* The read handlers: BookList.get, BookSearch.get, BooksByAuthor.get,     *)
(* BooksByCategory.get and BooksByStatus.get.  Each parses and clamps its  *)
(* parameters, asks the repository for a page and then for the total, and  *)
(* answers with the page and a pagination block.                           *)
(***************************************************************************)
DEFAULT_LIMIT == 50
MAX_LIMIT == 100
DEFAULT_SKIP == 0

\* request.args.get(name, default, type=int): the default when the argument
\* is absent (or is not an integer), written as the empty sequence
int_arg(arg, default) == IF arg = <<>> THEN default ELSE arg[1]

\* the limit check written with limit >= 100
clamp_limit_rejects_100(limit) ==
    IF limit <= 0 \/ limit >= MAX_LIMIT THEN DEFAULT_LIMIT ELSE limit

clamp_limit(limit) == IF limit <= 0 \/ limit > MAX_LIMIT THEN DEFAULT_LIMIT ELSE limit

clamp_skip(skip) == IF skip < 0 THEN 0 ELSE skip

\* the pagination block written with total_pages = total // limit + 1
pagination_pages_floor_plus_one(limit, skip, count, total_count) ==
    [limit |-> limit,
     skip |-> skip,
     count |-> count,
     total |-> total_count,
     has_next |-> skip + count < total_count,
     has_prev |-> skip > 0,
     page |-> (skip \div limit) + 1,
     total_pages |-> (total_count \div limit) + 1]

\* the pagination block of a response; count is len(books)
pagination(limit, skip, count, total_count) ==
    [limit |-> limit,
     skip |-> skip,
     count |-> count,
     total |-> total_count,
     has_next |-> skip + count < total_count,
     has_prev |-> skip > 0,
     page |-> (skip \div limit) + 1,
     total_pages |-> (total_count + limit - 1) \div limit]

\* the codes the except clause of a read handler re-raises: none
read_reraised == {}

read_abort_code(code) == IF code \in read_reraised THEN code ELSE 500

(***************************************************************************)
(* The books the read handlers find in the collection, as the add handlers *)
(* store them, and the requests they serve.                                *)
(***************************************************************************)
AUSTEN == <<"A", "u", "s", "t", "e", "n">>
NOVEL == <<"N", "o", "v", "e", "l">>
TITLE_SAND == <<"S", "a", "n", "d">>
DESCRIPTION_DUNE == <<"l", "i", "k", "e", " ", "d", "u", "n", "e">>

\* the document add_book stores for a handler's book_data
stored(data) == add_book(<<>>, data).coll[1]

BOOK_DUNE == stored(map_book_data(VOLUME, ISBN13))

BOOK_EMMA ==
    stored(manual_book_data(
        [isbn |-> ISBN10, title |-> TITLE_NEW, authors |-> [list |-> <<AUSTEN>>],
         description |-> DESCRIPTION_DUNE, categories |-> <<NOVEL>>,
         reading_status |-> "read"], ISBN10))

BOOK_SAND ==
    stored(manual_book_data(
        [isbn |-> ISBN13_HYPHENS, title |-> TITLE_SAND,
         authors |-> [list |-> <<AUSTEN, AUTHOR>>],
         categories |-> CATEGORIES \o <<NOVEL>>,
         reading_status |-> "in_progress"], ISBN13_HYPHENS))

QueryBooks == {BOOK_DUNE, BOOK_EMMA, BOOK_SAND}

\* the collections of at most MaxBooks of these books, in any order
QueryCollections ==
    {c \in UNION {[1..n -> QueryBooks] : n \in 0..MaxBooks} :
        \A i, j \in 1..Len(c) : i # j => c[i] # c[j]}

PATTERN_DU == <<"D", "U">>
PATTERN_HER == <<"h", "e", "r">>
PATTERN_S_ANY == <<"s", ".">>
PATTERN_E == <<"e">>
PATTERN_AUS == <<"A", "U", "S">>
PATTERN_SF == <<"s", "f">>
PATTERN_N == <<"n">>
BLANK == <<" ">>
PADDED_HER == <<" ", "h", "e", "r", " ">>

LimitArgs == {<<>>, <<0>>, <<1>>, <<2>>, <<100>>, <<101>>, <<150>>}
SkipArgs == {<<>>, <<-5>>, <<-1>>, <<1>>}

ReadRequest(route, query, title, author, category, status, limit, skip) ==
    [route |-> route, query |-> query, title |-> title, author |-> author,
     category |-> category, status |-> status, limit |-> limit, skip |-> skip]

ListRequests ==
    {ReadRequest("list", <<>>, <<>>, <<>>, <<>>, "", l, s) :
        l \in LimitArgs, s \in SkipArgs}

SearchRequests ==
    {ReadRequest("search", q, t, a, c, "", l, s) :
        q \in {<<>>, BLANK, PATTERN_DU}, t \in {<<>>, PATTERN_S_ANY},
        a \in {<<>>, PADDED_HER}, c \in {<<>>, BLANK, PATTERN_N},
        l \in {<<>>, <<1>>, <<101>>}, s \in {<<>>, <<-1>>, <<1>>}}

AuthorRequests ==
    {ReadRequest("author", <<>>, <<>>, a, <<>>, "", l, s) :
        a \in {PATTERN_HER, PATTERN_AUS}, l \in LimitArgs, s \in SkipArgs}

CategoryRequests ==
    {ReadRequest("category", <<>>, <<>>, <<>>, c, "", l, s) :
        c \in {PATTERN_SF, PATTERN_N}, l \in LimitArgs, s \in SkipArgs}

StatusListRequests ==
    {ReadRequest("status", <<>>, <<>>, <<>>, <<>>, st, l, s) :
        st \in READING_STATUSES \cup {"finished"}, l \in LimitArgs, s \in SkipArgs}

ReadRequests ==
    ListRequests \cup SearchRequests \cup AuthorRequests \cup CategoryRequests
    \cup StatusListRequests

\* a direct call of the repository's search_books and search_books_count
RepositoryCalls ==
    {ReadRequest("search_books", q, t, a, c, "", l, s) :
        q \in {<<>>, PATTERN_DU, PATTERN_HER}, t \in {<<>>, PATTERN_S_ANY, PATTERN_E},
        a \in {<<>>, PATTERN_AUS, PATTERN_HER}, c \in {<<>>, PATTERN_SF, PATTERN_N},
        l \in {<<0>>, <<1>>, <<MaxBooks>>}, s \in {<<-1>>, <<0>>, <<1>>}}

NoReadRequest == ReadRequest("none", <<>>, <<>>, <<>>, <<>>, "", <<>>, <<>>)

QInit ==
    /\ q_pc = "idle"
    /\ q_req = NoReadRequest
    /\ q_limit = 0
    /\ q_skip = 0
    /\ q_books = <<>>
    /\ q_total = 0
    /\ q_resp = 0
    /\ q_page = NoData
    /\ q_modified = FALSE
    /\ q_failed = FALSE

get_receive ==
    /\ q_pc = "idle"
    /\ \E r \in ReadRequests : q_req' = r
    /\ q_pc' = "params"
    /\ q_modified' = FALSE
    /\ UNCHANGED <<q_limit, q_skip, q_books, q_total, q_resp, q_page, q_failed>>
    /\ UNCHANGED <<vvars, hvars, svars>>

\* the parameters are read and clamped; BookSearch.get needs a criterion
\* that is not blank, BooksByStatus.get a status of the enum, and their
\* api.abort(400) is raised inside the try block
get_params ==
    /\ q_pc = "params"
    /\ LET r == q_req
           criteria == <<strip(r.query), strip(r.title), strip(r.author),
                         strip(r.category)>>
           aborted == \/ r.route = "search" /\ \A i \in 1..4 : criteria[i] = <<>>
                      \/ r.route = "status" /\ r.status \notin READING_STATUSES
       IN  IF r.route = "status" /\ aborted
           THEN /\ q_pc' = "done" /\ q_resp' = read_abort_code(400)
                /\ UNCHANGED <<q_limit, q_skip>>
           ELSE /\ q_limit' = clamp_limit(int_arg(r.limit, DEFAULT_LIMIT))
                /\ q_skip' = clamp_skip(int_arg(r.skip, DEFAULT_SKIP))
                /\ IF aborted
                   THEN q_pc' = "done" /\ q_resp' = read_abort_code(400)
                   ELSE q_pc' = "books" /\ q_resp' = q_resp
    /\ UNCHANGED <<q_req, q_books, q_total, q_page, q_modified, q_failed>>
    /\ UNCHANGED <<vvars, hvars, svars>>

\* the page the repository returns for the request
repository_page(c, r, limit, skip) ==
    CASE r.route = "list" -> get_all_books(c, limit, skip)
      [] r.route = "search" ->
            search_books(c, strip(r.query), strip(r.title), strip(r.author),
                         strip(r.category), limit, skip)
      [] r.route = "author" -> get_books_by_author(c, r.author, limit, skip)
      [] r.route = "category" -> get_books_by_category(c, r.category, limit, skip)
      [] r.route = "status" -> get_books_by_status(c, r.status, limit, skip)

\* the total the repository returns for the request
repository_count(c, r) ==
    CASE r.route = "list" -> get_total_books_count(c)
      [] r.route = "search" ->
            search_books_count(c, strip(r.query), strip(r.title), strip(r.author),
                               strip(r.category))
      [] r.route = "author" -> get_books_by_author_count(c, r.author)
      [] r.route = "category" -> get_books_by_category_count(c, r.category)
      [] r.route = "status" -> get_books_by_status_count(c, r.status)

\* books = db_service.<page method>(..., limit=limit, skip=skip)
get_books ==
    /\ q_pc = "books"
    /\ \E fails \in BOOLEAN :
          LET r == repository_page(coll, q_req, q_limit, q_skip)
          IN  IF fails \/ r.result = "raise"
              THEN /\ q_pc' = "done" /\ q_resp' = read_abort_code(500)
                   /\ UNCHANGED q_books
              ELSE /\ q_pc' = "count" /\ q_resp' = q_resp
                   /\ q_books' = r.books
    /\ UNCHANGED <<q_req, q_limit, q_skip, q_total, q_page, q_modified, q_failed>>
    /\ UNCHANGED <<vvars, hvars, svars>>

\* total_count = db_service.<count method>(...), which returns 0 when the
\* store raises; then the response with its pagination block
get_count ==
    /\ q_pc = "count"
    /\ \E fails \in BOOLEAN :
          LET total_count == IF fails THEN 0 ELSE repository_count(coll, q_req)
          IN  /\ q_total' = total_count
              /\ q_page' = pagination(q_limit, q_skip, Len(q_books), total_count)
              /\ q_failed' = fails
    /\ q_pc' = "done"
    /\ q_resp' = 200
    /\ UNCHANGED <<q_req, q_limit, q_skip, q_books, q_modified>>
    /\ UNCHANGED <<vvars, hvars, svars>>

get_reply ==
    /\ q_pc = "done"
    /\ q_pc' = "idle"
    /\ q_req' = NoReadRequest
    /\ q_limit' = 0
    /\ q_skip' = 0
    /\ q_books' = <<>>
    /\ q_total' = 0
    /\ q_resp' = 0
    /\ q_page' = NoData
    /\ q_modified' = FALSE
    /\ q_failed' = FALSE
    /\ UNCHANGED <<vvars, hvars, svars>>

\* a caller asks the repository for a search and for its count
call_search_books ==
    /\ q_pc = "idle"
    /\ \E r \in RepositoryCalls :
          LET page == search_books(coll, r.query, r.title, r.author, r.category,
                                   r.limit[1], r.skip[1])
          IN  /\ q_req' = r
              /\ q_limit' = r.limit[1]
              /\ q_skip' = r.skip[1]
              /\ q_books' = page.books
              /\ q_page' = [result |-> page.result]
              /\ q_total' = search_books_count(coll, r.query, r.title, r.author,
                                               r.category)
    /\ q_pc' = "done"
    /\ UNCHANGED <<q_resp, q_modified, q_failed>>
    /\ UNCHANGED <<vvars, hvars, svars>>

QNext ==
    \/ get_receive
    \/ get_params
    \/ get_books
    \/ get_count
    \/ get_reply
    \/ call_search_books

(***************************************************************************)
(* The pagination block alone, computed for totals up to MaxTotal.         *)
(***************************************************************************)
PageLimits == {1, 2, 3, 7, 49, 50, 51, 99, 100}

paginate ==
    /\ q_pc = "idle"
    /\ \E total \in 0..MaxTotal, limit \in PageLimits, skip \in 0..(MaxTotal + 1) :
          LET remaining == IF total > skip THEN total - skip ELSE 0
              count == IF remaining < limit THEN remaining ELSE limit
          IN  /\ q_limit' = limit
              /\ q_skip' = skip
              /\ q_total' = total
              /\ q_page' = pagination(limit, skip, count, total)
    /\ q_pc' = "done"
    /\ q_resp' = 200
    /\ UNCHANGED <<q_req, q_books, q_modified, q_failed>>
    /\ UNCHANGED <<vvars, hvars, svars>>

(***************************************************************************)
(* ReadingStatistics.get and DatabaseService.get_reading_statistics: four  *)
(* count queries, one after the other, and then the dictionary built from  *)
(* their answers.                                                          *)
(***************************************************************************)
\* round(count / total * 100, 2) if total > 0 else 0, in hundredths (33.33
\* is 3333).  Python rounds to the nearest hundredth; a value halfway
\* between two hundredths needs a total that is a multiple of 32 and goes
\* to the even one
percentage(count, total) ==
    IF total > 0
    THEN LET q == (count * 10000) \div total
             r == (count * 10000) % total
         IN  IF 2 * r > total \/ (2 * r = total /\ q % 2 = 1) THEN q + 1 ELSE q
    ELSE 0

\* the stats dictionary of get_reading_statistics
reading_statistics(read_count, unread_count, in_progress_count, total_count) ==
    LET no_status_count ==
            total_count - read_count - unread_count - in_progress_count
    IN  [total_books |-> total_count,
         read |-> read_count,
         unread |-> unread_count + no_status_count,
         in_progress |-> in_progress_count,
         reading_percentage |-> percentage(read_count, total_count),
         progress_percentage |-> percentage(in_progress_count, total_count)]

NoCounts == [read_count |-> 0, unread_count |-> 0, in_progress_count |-> 0]

SInit ==
    /\ s_pc = "idle"
    /\ s_counts = NoCounts
    /\ s_stats = NoData
    /\ s_resp = 0
    /\ s_modified = FALSE
    /\ s_writes = 0

stats_receive ==
    /\ s_pc = "idle"
    /\ s_pc' = "read_count"
    /\ s_modified' = FALSE
    /\ UNCHANGED <<s_counts, s_stats, s_resp, s_writes>>
    /\ UNCHANGED <<vvars, hvars, qvars>>

\* <name> = self.collection.count_documents({"reading_status": status}); an
\* exception is re-raised and the handler answers 500
stats_count(name, status, next) ==
    /\ s_pc = name
    /\ \E fails \in BOOLEAN :
          IF fails
          THEN /\ s_pc' = "done" /\ s_resp' = 500
               /\ UNCHANGED s_counts
          ELSE /\ s_counts' =
                     [s_counts EXCEPT
                        ![name] = count_documents_where(
                                      coll, [reading_status |-> [eq |-> status]])]
               /\ s_pc' = next
               /\ UNCHANGED s_resp
    /\ UNCHANGED <<s_stats, s_modified, s_writes>>
    /\ UNCHANGED <<vvars, hvars, qvars>>

stats_read_count == stats_count("read_count", "read", "unread_count")

stats_unread_count == stats_count("unread_count", "unread", "in_progress_count")

stats_in_progress_count ==
    stats_count("in_progress_count", "in_progress", "total_count")

\* total_count = self.collection.count_documents({}), the dictionary, and
\* the response of the handler
stats_total_count ==
    /\ s_pc = "total_count"
    /\ \E fails \in BOOLEAN :
          IF fails
          THEN /\ s_resp' = 500
               /\ UNCHANGED s_stats
          ELSE /\ s_stats' =
                     reading_statistics(s_counts.read_count, s_counts.unread_count,
                                        s_counts.in_progress_count,
                                        count_documents_where(coll, NoData))
               /\ s_resp' = 200
    /\ s_pc' = "done"
    /\ UNCHANGED <<s_counts, s_modified, s_writes>>
    /\ UNCHANGED <<vvars, hvars, qvars>>

stats_reply ==
    /\ s_pc = "done"
    /\ s_pc' = "idle"
    /\ s_counts' = NoCounts
    /\ s_stats' = NoData
    /\ s_resp' = 0
    /\ s_modified' = FALSE
    /\ UNCHANGED s_writes
    /\ UNCHANGED <<vvars, hvars, qvars>>

SNext ==
    \/ stats_receive
    \/ stats_read_count
    \/ stats_unread_count
    \/ stats_in_progress_count
    \/ stats_total_count
    \/ stats_reply

(***************************************************************************)
(* The repository writes of other requests, each one store operation,      *)
(* taking place between the store operations of a read handler.            *)
(***************************************************************************)
\* a book stored before add_book began to set reading_status
BOOK_LEGACY ==
    without(stored(manual_book_data(
        [isbn |-> ISBN10_LOWER_X, title |-> TITLE_NEW,
         authors |-> [list |-> <<AUTHOR>>]], ISBN10_LOWER_X)), "reading_status")

Shelf == <<BOOK_EMMA, BOOK_DUNE, BOOK_LEGACY, BOOK_SAND>>

RECURSIVE SubSeqs(_)
\* the sequences made of elements of s, in the order of s
SubSeqs(s) ==
    IF s = <<>> THEN {<<>>}
    ELSE LET rest == SubSeqs(Tail(s))
         IN  rest \cup {<<Head(s)>> \o t : t \in rest}

\* the collections of at most MaxShelf of these books
ShelfCollections == {c \in SubSeqs(Shelf) : Len(c) <= MaxShelf}

\* a write of another request that changes the collection
Write(c) ==
    /\ s_writes < MaxWrites
    /\ c # coll
    /\ coll' = c
    /\ s_writes' = s_writes + 1
    /\ s_modified' = TRUE
    /\ q_modified' = TRUE
    /\ UNCHANGED <<served, pc, req, h_isbn, exists, book_data, success, resp, trace,
                   wrote, raised, fetched>>
    /\ UNCHANGED <<q_pc, q_req, q_limit, q_skip, q_books, q_total, q_resp, q_page,
                   q_failed>>
    /\ UNCHANGED <<s_pc, s_counts, s_stats, s_resp>>
    /\ UNCHANGED vvars

\* BookList.post or ManualBook.post: db_service.add_book(book_data)
other_add == \E doc \in QueryBooks : Write(add_book(coll, doc).coll)

\* Book.delete: db_service.delete_book(isbn)
other_delete == \E i \in 1..Len(coll) : Write(delete_book(coll, coll[i].isbn).coll)

\* BookStatus.put: db_service.update_reading_status(isbn, new_status)
other_status ==
    \E i \in 1..Len(coll), status \in READING_STATUSES :
        Write(update_reading_status(coll, coll[i].isbn, status).coll)

\* Book.put: db_service.update_book(isbn, update_data), the body unvalidated
other_update ==
    \E i \in 1..Len(coll) :
        Write(update_book(coll, coll[i].isbn, [reading_status |-> "finished"]).coll)

ConcurrentRequests ==
    {ReadRequest("list", <<>>, <<>>, <<>>, <<>>, "", l, s) :
        l \in {<<>>, <<1>>}, s \in {<<>>, <<1>>}}
    \cup {ReadRequest("search", PATTERN_DU, <<>>, <<>>, <<>>, "", <<>>, <<>>),
          ReadRequest("author", <<>>, <<>>, PATTERN_HER, <<>>, "", <<>>, <<>>),
          ReadRequest("category", <<>>, <<>>, <<>>, PATTERN_N, "", <<>>, <<>>),
          ReadRequest("status", <<>>, <<>>, <<>>, <<>>, "read", <<>>, <<>>)}

\* get_receive for the requests served while other requests write
concurrent_receive ==
    /\ q_pc = "idle"
    /\ \E r \in ConcurrentRequests : q_req' = r
    /\ q_pc' = "params"
    /\ q_modified' = FALSE
    /\ UNCHANGED <<q_limit, q_skip, q_books, q_total, q_resp, q_page, q_failed>>
    /\ UNCHANGED <<vvars, hvars, svars>>

(***************************************************************************)
(* Specifications                                                          *)
(***************************************************************************)
Init == VInit /\ HInit /\ QInit /\ SInit

\* the request handlers, served by the workers in any interleaving
Next == HNext

Spec == Init /\ [][Next]_vars

\* the validator alone
NextValidator == VNext

SpecValidator == Init /\ [][NextValidator]_vars

\* the read handlers and the repository's search on a collection that holds
\* any of the books in any order
InitQuery == VInit /\ HIdle /\ coll \in QueryCollections /\ QInit /\ SInit

NextQuery == QNext

SpecQuery == InitQuery /\ [][NextQuery]_vars

\* the pagination block alone
NextPagination == paginate

SpecPagination == Init /\ [][NextPagination]_vars

\* the statistics handler and the read handlers while other requests write
\* to a collection that holds up to MaxShelf books
InitConcurrent == VInit /\ HIdle /\ coll \in ShelfCollections /\ QInit /\ SInit

NextConcurrent ==
    \/ SNext
    \/ concurrent_receive
    \/ get_params
    \/ get_books
    \/ get_count
    \/ get_reply
    \/ other_add
    \/ other_delete
    \/ other_status
    \/ other_update

SpecConcurrent == InitConcurrent /\ [][NextConcurrent]_vars

(***************************************************************************)
(* The validator's contract, stated independently of the code above.       *)
(***************************************************************************)
\* the normalized form of an input: its characters among 0-9, x and X, in
\* order, with x written X
Canon(s) ==
    LET kept == SelectSeq(s, LAMBDA c : c \in Digits \cup {"x", "X"})
    IN  [i \in 1..Len(kept) |-> IF kept[i] = "x" THEN "X" ELSE kept[i]]

DigitValue(c) == CHOOSE n \in 0..9 : int(c) = n

\* the ISBN-10 rule on a normalized string of length 10
Isbn10Rule(s) ==
    /\ \A i \in 1..9 : s[i] \in Digits
    /\ s[10] \in Digits \cup {"X"}
    /\ LET check == IF s[10] = "X" THEN 10 ELSE DigitValue(s[10])
           sum == 10 * DigitValue(s[1]) + 9 * DigitValue(s[2])
                  + 8 * DigitValue(s[3]) + 7 * DigitValue(s[4])
                  + 6 * DigitValue(s[5]) + 5 * DigitValue(s[6])
                  + 4 * DigitValue(s[7]) + 3 * DigitValue(s[8])
                  + 2 * DigitValue(s[9])
       IN  (sum + check) % 11 = 0

\* the ISBN-13 rule on a normalized string of length 13
Isbn13Rule(s) ==
    /\ \A i \in 1..13 : s[i] \in Digits
    /\ LET sum == DigitValue(s[1]) + 3 * DigitValue(s[2]) + DigitValue(s[3])
                  + 3 * DigitValue(s[4]) + DigitValue(s[5]) + 3 * DigitValue(s[6])
                  + DigitValue(s[7]) + 3 * DigitValue(s[8]) + DigitValue(s[9])
                  + 3 * DigitValue(s[10]) + DigitValue(s[11])
                  + 3 * DigitValue(s[12])
       IN  DigitValue(s[13]) = (10 - (sum % 10)) % 10

\* C4: an input whose normalized form has length 10 is accepted exactly when
\* its first nine characters are digits, the tenth is a digit or X (valued
\* 10) and the sum weighted 10..2 plus the check value is divisible by 11;
\* an X among the first nine characters makes it rejected.
C4_Isbn10Contract ==
    LET c == Canon(isbn_in)
    IN  Len(c) = 10 =>
          /\ valid <=> Isbn10Rule(c)
          /\ (\E i \in 1..9 : c[i] = "X") => ~valid

\* an accepted ISBN-10 written with separators and a lower-case check x
C4_Witness ==
    /\ valid
    /\ Len(Canon(isbn_in)) = 10
    /\ Canon(isbn_in)[10] = "X"
    /\ isbn_in # Canon(isbn_in)

\* C5: an input whose normalized form has length 13 is accepted exactly when
\* all 13 characters are digits and the 13th equals (10 - (s mod 10)) mod 10
\* for s the sum of the first twelve with multipliers 1,3,1,3,...; an X
\* among the 13 characters makes it rejected.
C5_Isbn13Contract ==
    LET c == Canon(isbn_in)
    IN  Len(c) = 13 =>
          /\ valid <=> Isbn13Rule(c)
          /\ (\E i \in 1..13 : c[i] = "X") => ~valid

\* an accepted ISBN-13 written with separators
C5_Witness ==
    /\ valid
    /\ Len(Canon(isbn_in)) = 13
    /\ isbn_in # Canon(isbn_in)

JunkChars == Chars \ (Digits \cup {"x", "X"})

toggle_x(c) == IF c = "x" THEN "X" ELSE IF c = "X" THEN "x" ELSE c

\* C6: the result depends only on the normalized form of the input: it is
\* the result for the normalized form itself, and inserting a character
\* other than 0-9, x, X anywhere, removing such a character, or changing the
\* case of an x leaves it unchanged.
C6_NormalFormOnly ==
    /\ valid = validate_isbn(Canon(isbn_in))
    /\ \A i \in 1..(Len(isbn_in) + 1), c \in JunkChars :
          validate_isbn(insert_at(isbn_in, i, c)) = valid
    /\ \A i \in 1..Len(isbn_in) :
          /\ isbn_in[i] \in JunkChars =>
                validate_isbn(delete_at(isbn_in, i)) = valid
          /\ isbn_in[i] \in {"x", "X"} =>
                validate_isbn(replace_at(isbn_in, i, toggle_x(isbn_in[i]))) = valid

\* '978-0-439-70818-0' is accepted, as '9780439708180' is
C6_Witness ==
    /\ isbn_in = ISBN13_HYPHENS
    /\ valid
    /\ Canon(isbn_in) = ISBN13

\* C7: for a 12-digit prefix, exactly one check digit 0-9 appended to it
\* gives a string validate_isbn accepts.
C7_OneCheckDigit ==
    LET c == Canon(isbn_in)
    IN  (Len(c) >= 12 /\ \A i \in 1..12 : c[i] \in Digits) =>
          Cardinality({d \in Digits :
                          validate_isbn(SubSeq(c, 1, 12) \o <<d>>)}) = 1

\* the 12-digit prefix 978043970818, which the check digit 0 completes
C7_Witness ==
    /\ isbn_in = SubSeq(ISBN13, 1, 12)
    /\ validate_isbn(isbn_in \o <<"0">>)
    /\ ~validate_isbn(isbn_in \o <<"1">>)

\* C8: replacing the character at any single position of an accepted
\* ISBN-10 input by a different decimal digit gives a rejected input.
C8_SingleDigitChange ==
    (valid /\ Len(Canon(isbn_in)) = 10) =>
        \A i \in 1..Len(isbn_in), d \in Digits :
            d # isbn_in[i] => ~validate_isbn(replace_at(isbn_in, i, d))

\* 0439708184 is accepted and each of its ninety single-digit changes is
\* rejected
C8_Witness ==
    /\ isbn_in = ISBN10
    /\ valid
    /\ ~validate_isbn(replace_at(isbn_in, 10, "5"))

(***************************************************************************)
(* The handlers' and the repository's contract                             *)
(***************************************************************************)
Adds == {w \in Workers : req[w].op \in {"post", "manual"}}

\* C1: no two documents of the collection have the same isbn, whatever
\* requests were served and however they interleaved, on a store that
\* enforces the unique index on isbn.
C1_UniqueIsbn ==
    \A i, j \in 1..Len(coll) : i # j => coll[i].isbn # coll[j].isbn

\* two adds of one ISBN both passed the existence check; one inserted, the
\* other's insert was refused by the index; the ISBN is stored once
C1_Witness ==
    \E w \in Adds, v \in Adds :
        /\ w # v
        /\ h_isbn[w] = h_isbn[v]
        /\ ~exists[w] /\ ~exists[v]
        /\ resp[w] = 201 /\ success[w] = "True"
        /\ pc[v] = "done" /\ success[v] = "False"
        /\ count_documents(coll, h_isbn[w]) = 1

\* C2: every document of the collection has a reading_status among read,
\* unread, in_progress.
C2_StatusInEnum ==
    \A i \in 1..Len(coll) : coll[i].reading_status \in READING_STATUSES

\* C3: every stored isbn is in normalized form: only the characters 0-9 and
\* X, of length 10 or 13.
C3_StoredIsbnNormalized ==
    \A i \in 1..Len(coll) :
        /\ coll[i].isbn = Canon(coll[i].isbn)
        /\ Len(coll[i].isbn) \in {10, 13}

PostStages ==
    <<"validate_isbn", "book_exists", "GoogleBooksService.get_book_by_isbn",
      "add_book">>

\* C9: an add-by-ISBN request makes its calls in the order format
\* validation, existence check, catalog lookup, insert.  A missing or
\* invalid ISBN answers 400 with no store or catalog call; an ISBN found by
\* the existence check answers 409 with no lookup and no insert; a lookup
\* without result answers 404 with no insert; 201 is answered only after all
\* four calls, the insert having succeeded; and a request that does not
\* answer 201 has not changed the collection.
C9_AddByIsbnStages ==
    \A w \in Workers : req[w].op = "post" =>
        LET n == Len(trace[w])
            body == req[w].body
            rejected == \/ "isbn" \notin DOMAIN body
                        \/ ~validate_isbn(strip(body.isbn))
        IN  /\ n <= 4 /\ trace[w] = SubSeq(PostStages, 1, n)
            /\ (pc[w] # "validate" /\ rejected) => resp[w] = 400
            /\ resp[w] = 400 => rejected /\ n <= 1
            /\ exists[w] => resp[w] = 409
            /\ resp[w] = 409 => exists[w] /\ n = 2
            /\ (n >= 3 /\ falsy(book_data[w])) => resp[w] = 404
            /\ resp[w] = 404 => falsy(book_data[w]) /\ n = 3
            /\ resp[w] = 201 =>
                  /\ n = 4 /\ ~rejected /\ ~exists[w] /\ ~falsy(book_data[w])
                  /\ success[w] = "True" /\ wrote[w] = 1
            /\ resp[w] # 201 => wrote[w] = 0

\* one add-by-ISBN request stored its book and answered 201, another found
\* that ISBN at its existence check and answered 409 without a write
C9_Witness ==
    \E w \in Workers, v \in Workers :
        /\ w # v
        /\ req[w].op = "post" /\ resp[w] = 201 /\ wrote[w] = 1
        /\ req[v].op = "post" /\ resp[v] = 409 /\ wrote[v] = 0

\* C10: an add request that cannot store its book because the ISBN is
\* already in the collection answers 409, whether the existence check or the
\* store's duplicate-key error found the other record.
C10_DuplicateAnswers409 ==
    \A w \in Adds :
        (pc[w] = "done" /\ (exists[w] \/ success[w] = "False")) => resp[w] = 409

\* the step in which worker w makes the call name
Called(w, name) == trace'[w] = Append(trace[w], name)

\* C11: inserting a book whose isbn is already in the collection returns
\* false without raising, and the collection, every field of the existing
\* record included, is exactly as before the call; an insert returns false
\* only then.
C11_DuplicateInsertRefused ==
    [][\A w \in Workers :
          (Called(w, "add_book") /\ ~raised'[w]) =>
              IF book_exists(coll, book_data[w].isbn)
              THEN success'[w] = "False" /\ coll' = coll
              ELSE success'[w] = "True"]_vars

\* an add whose insert was refused, while the stored record of that isbn
\* differs from the book the add wanted to store
C11_Witness ==
    \E w \in Adds :
        /\ pc[w] = "done" /\ success[w] = "False" /\ ~raised[w]
        /\ wrote[w] = 0
        /\ book_exists(coll, book_data[w].isbn)
        /\ find_one(coll, book_data[w].isbn).description # book_data[w].description

\* C12: update(isbn, fields) on an existing record returns true, leaves that
\* record's isbn equal to the lookup key even when fields holds another
\* isbn, sets every other supplied field to the supplied value and leaves
\* every other field and record alone; when no record has that isbn it
\* returns false and changes nothing.
C12_UpdateKeepsIsbn ==
    [][\A w \in Workers :
          (Called(w, "update_book") /\ ~raised'[w]) =>
              LET key == h_isbn[w]
                  fields == req[w].body
              IN  IF book_exists(coll, key)
                  THEN /\ success'[w] = "True"
                       /\ Len(coll') = Len(coll)
                       /\ \A i \in 1..Len(coll) :
                             IF coll[i].isbn = key
                             THEN /\ coll'[i].isbn = key
                                  /\ DOMAIN coll'[i] = DOMAIN coll[i] \cup DOMAIN fields
                                  /\ \A k \in DOMAIN coll'[i] :
                                        coll'[i][k] =
                                            IF k \in DOMAIN fields \ {"isbn"}
                                            THEN fields[k] ELSE coll[i][k]
                             ELSE coll'[i] = coll[i]
                  ELSE success'[w] = "False" /\ coll' = coll]_vars

\* an update whose body carried another isbn and a new title: the record
\* has the new title and still the isbn of the path
C12_Witness ==
    \E w \in Workers :
        /\ req[w].op = "put" /\ success[w] = "True"
        /\ "isbn" \in DOMAIN req[w].body /\ req[w].body.isbn # h_isbn[w]
        /\ book_exists(coll, h_isbn[w])
        /\ ~book_exists(coll, req[w].body.isbn)
        /\ find_one(coll, h_isbn[w]).title = req[w].body.title

\* C13: delete(isbn) returns true and removes exactly the record keyed by
\* isbn when one exists, leaving every other record unchanged, after which
\* exists(isbn) is false; when no record has that isbn it returns false and
\* the collection is unchanged.
C13_DeleteRemovesExactlyOne ==
    [][\A w \in Workers :
          (Called(w, "delete_book") /\ ~raised'[w]) =>
              LET key == h_isbn[w]
              IN  IF book_exists(coll, key)
                  THEN /\ success'[w] = "True"
                       /\ Len(coll') = Len(coll) - 1
                       /\ coll' = SelectSeq(coll, LAMBDA doc : doc.isbn # key)
                       /\ ~book_exists(coll', key)
                  ELSE success'[w] = "False" /\ coll' = coll]_vars

\* a delete that returned true with another record left in the collection
C13_Witness ==
    \E w \in Workers :
        /\ req[w].op = "delete" /\ success[w] = "True" /\ resp[w] = 200
        /\ ~book_exists(coll, h_isbn[w])
        /\ Len(coll) >= 1

PathOps == {w \in Workers : req[w].op \in {"put", "delete", "status"}}

\* the input of an update, delete or status request does not pass validation
path_rejected(w) ==
    \/ ~validate_isbn(req[w].path)
    \/ req[w].op = "put" /\ falsy(req[w].body)
    \/ /\ req[w].op = "status"
       /\ \/ "reading_status" \notin DOMAIN req[w].body
          \/ req[w].body.reading_status \notin READING_STATUSES

\* C14: the update, delete and status handlers answer 404 and leave the
\* collection unchanged whenever the format-valid ISBN has no record at the
\* existence check, and they make the existence check only after validation
\* has passed: an invalid ISBN, an empty update body or a status outside the
\* enum answers 400 with no store call, whether or not the record exists.
C14_Missing404 ==
    \A w \in PathOps :
        LET n == Len(trace[w])
        IN  /\ (n >= 1 /\ path_rejected(w)) =>
                  resp[w] = 400 /\ trace[w] = <<"validate_isbn">> /\ wrote[w] = 0
            /\ resp[w] = 400 => path_rejected(w)
            /\ (n >= 2 /\ ~exists[w] /\ ~raised[w]) => resp[w] = 404
            /\ resp[w] = 404 =>
                  /\ ~path_rejected(w) /\ ~exists[w]
                  /\ trace[w] = <<"validate_isbn", "book_exists">>
                  /\ wrote[w] = 0

\* one request answered 404 for an ISBN without record, another answered 400
\* for a status outside the enum although its book is stored
C14_Witness ==
    \E w \in PathOps, v \in PathOps :
        /\ resp[w] = 404 /\ ~book_exists(coll, h_isbn[w])
        /\ resp[v] = 400 /\ validate_isbn(req[v].path)
        /\ book_exists(coll, req[v].path)

(***************************************************************************)
(* The read handlers' and the repository search's contract                 *)
(***************************************************************************)
Range(s) == {s[i] : i \in 1..Len(s)}

\* the four criteria as the handler passes them on: trimmed
Criteria(r) ==
    IF r.route = "search"
    THEN [query |-> strip(r.query), title |-> strip(r.title),
          author |-> strip(r.author), category |-> strip(r.category)]
    ELSE [query |-> r.query, title |-> r.title, author |-> r.author,
          category |-> r.category]

NoCriteria(r) == \A k \in DOMAIN Criteria(r) : Criteria(r)[k] = <<>>

\* the pattern matches the text, letters compared in either case
Matches(pattern, text) == regex_search(pattern, text, "i")

\* the record satisfies every supplied clause
Satisfies(doc, cr) ==
    /\ cr.query # <<>> =>
          \/ Matches(cr.query, doc.title)
          \/ \E i \in 1..Len(doc.authors) : Matches(cr.query, doc.authors[i])
          \/ Matches(cr.query, doc.description)
    /\ cr.title # <<>> => Matches(cr.title, doc.title)
    /\ cr.author # <<>> =>
          \E i \in 1..Len(doc.authors) : Matches(cr.author, doc.authors[i])
    /\ cr.category # <<>> =>
          \E i \in 1..Len(doc.categories) : Matches(cr.category, doc.categories[i])

RepositoryCalled == q_pc = "done" /\ q_req.route = "search_books"

\* the call's pagination does not truncate
Untruncated == q_page.result = "ok" /\ q_skip = 0 /\ q_limit >= Len(coll)

\* C15: a GET /books/search request in which none of query, title, author,
\* category is supplied (all absent or blank after trimming) answers 400.
C15_SearchWithoutCriteria400 ==
    (q_pc = "done" /\ q_req.route = "search" /\ NoCriteria(q_req)) => q_resp = 400

\* C16: the repository's search called with none of query, title, author,
\* category returns an empty sequence for every collection, limit and skip.
C16_NoCriteriaEmpty ==
    (RepositoryCalled /\ NoCriteria(q_req)) =>
        q_books = <<>> /\ q_page.result = "ok"

\* a search without criteria on a collection that holds books, any number
\* of them allowed on the page
C16_Witness ==
    /\ RepositoryCalled /\ NoCriteria(q_req)
    /\ Len(coll) = MaxBooks /\ q_limit = 0 /\ q_skip = 0
    /\ q_books = <<>>

\* the records search_books returns for the criteria on the whole collection
Found(query, title, author, category) ==
    Range(search_books(coll, query, title, author, category, 0, 0).books)

\* C17: a record is matched by search exactly when it satisfies all supplied
\* clauses together: the query clause by title or any author or description,
\* the title, author and category clauses each by their own field.  Title
\* and author together give the intersection of the two single-criterion
\* results, and query together with title keeps both clauses.
C17_AllSuppliedClauses ==
    (RepositoryCalled /\ Untruncated /\ ~NoCriteria(q_req)) =>
        LET cr == Criteria(q_req)
        IN  /\ Range(q_books) = {doc \in Range(coll) : Satisfies(doc, cr)}
            /\ (cr.title # <<>> /\ cr.author # <<>>) =>
                  Found(<<>>, cr.title, cr.author, <<>>)
                      = Found(<<>>, cr.title, <<>>, <<>>)
                        \cap Found(<<>>, <<>>, cr.author, <<>>)
            /\ (cr.query # <<>> /\ cr.title # <<>>) =>
                  Found(cr.query, cr.title, <<>>, <<>>)
                      = Found(cr.query, <<>>, <<>>, <<>>)
                        \cap Found(<<>>, cr.title, <<>>, <<>>)

\* a search by query and title together: the query alone finds one of the
\* two books (through its author), the title alone finds both, and the
\* search returns the one
C17_Witness ==
    /\ RepositoryCalled /\ Untruncated
    /\ q_req.query = PATTERN_HER /\ q_req.title = PATTERN_E
    /\ q_req.author = <<>> /\ q_req.category = <<>>
    /\ coll = <<BOOK_EMMA, BOOK_DUNE>>
    /\ q_books = <<BOOK_DUNE>>
    /\ Found(PATTERN_HER, <<>>, <<>>, <<>>) = {BOOK_DUNE}
    /\ Found(<<>>, PATTERN_E, <<>>, <<>>) = {BOOK_DUNE, BOOK_EMMA}

\* C18: for every combination of the four criteria, none supplied included,
\* and every collection, search_books_count returns the number of records
\* search_books returns for the same criteria when pagination does not
\* truncate.
C18_CountEqualsSearch ==
    (RepositoryCalled /\ Untruncated) => q_total = Len(q_books)

PagedRoutes == {"list", "search", "author", "category", "status"}

\* the limit and the skip the claim calls effective
EffectiveLimit(r) ==
    IF r.limit # <<>> /\ 1 <= r.limit[1] /\ r.limit[1] <= 100 THEN r.limit[1] ELSE 50

EffectiveSkip(r) == IF r.skip # <<>> /\ r.skip[1] >= 0 THEN r.skip[1] ELSE 0

\* the records of the collection the route selects, in order
Selected(r) ==
    SelectSeq(coll, LAMBDA doc :
        /\ Satisfies(doc, Criteria(r))
        /\ r.route = "status" => doc.reading_status = r.status)

\* C19: in every paginated handler the effective limit is the requested one
\* when 1 <= limit <= 100 and 50 otherwise, the effective skip the requested
\* one when >= 0 and 0 otherwise; the store is queried with the effective
\* values and the pagination block reports them.
C19_ClampedPaging ==
    q_req.route \in PagedRoutes =>
        LET limit == EffectiveLimit(q_req)
            skip == EffectiveSkip(q_req)
            all == Selected(q_req)
        IN  /\ q_pc \in {"books", "count"} => q_limit = limit /\ q_skip = skip
            /\ (q_pc = "count" \/ q_resp = 200) =>
                  /\ q_books = SubSeq(all, skip + 1,
                                      IF skip + limit < Len(all) THEN skip + limit
                                      ELSE Len(all))
            /\ q_resp = 200 => q_page.limit = limit /\ q_page.skip = skip

\* a request with limit 150 and skip -5 answered with limit 50 and skip 0
C19_Witness ==
    /\ q_resp = 200
    /\ q_req.limit = <<150>> /\ q_req.skip = <<-5>>
    /\ q_page.limit = 50 /\ q_page.skip = 0
    /\ Len(q_books) = MaxBooks

\* C20: for every total >= 0, limit in 1..100 and skip >= 0 the pagination
\* block reports page = skip div limit + 1, total_pages = the ceiling of
\* total / limit, has_next = (skip + returned count < total) and has_prev =
\* (skip > 0); total 120, limit 50, skip 50 give page 2 of 3 with has_next
\* and has_prev.
C20_PaginationBlock ==
    (q_pc = "done" /\ q_resp = 200) =>
        LET p == q_page
        IN  /\ p.limit \in 1..100 /\ p.skip >= 0 /\ p.total >= 0
            /\ (p.page - 1) * p.limit <= p.skip /\ p.skip < p.page * p.limit
            /\ p.total_pages * p.limit >= p.total
            /\ p.total_pages >= 0
            /\ p.total_pages > 0 => (p.total_pages - 1) * p.limit < p.total
            /\ p.has_next <=> (p.skip + p.count < p.total)
            /\ p.has_prev <=> (p.skip > 0)
            /\ (p.total = 120 /\ p.limit = 50 /\ p.skip = 50) =>
                  p.page = 2 /\ p.total_pages = 3 /\ p.has_next /\ p.has_prev

\* the block for total 120, limit 50, skip 50
C20_Witness ==
    /\ q_pc = "done"
    /\ q_page.total = 120 /\ q_page.limit = 50 /\ q_page.skip = 50
    /\ q_page.count = 50
    /\ q_page.page = 2 /\ q_page.total_pages = 3
    /\ q_page.has_next /\ q_page.has_prev

PostOps == {w \in Workers : req[w].op = "post"}

\* C22: every failure of the catalog lookup (network error or timeout, HTTP
\* error status, unparsable body, missing or malformed items, volumeInfo or
\* imageLinks) makes the fetcher return None instead of raising, and the
\* add-by-ISBN request that issued it answers 404 without calling add_book
\* and without a write.
C22_FetchFailsSoft ==
    \A w \in PostOps :
        fetched[w] \notin {"none", "items"} =>
            /\ falsy(book_data[w])
            /\ pc[w] = "done" /\ resp[w] = 404
            /\ trace[w] = SubSeq(PostStages, 1, 3)
            /\ wrote[w] = 0

\* a lookup met a volumeInfo whose imageLinks is null; the request answered
\* 404 and the ISBN is not in the collection
C22_Witness ==
    \E w \in PostOps :
        /\ fetched[w] = "bad_image_links"
        /\ resp[w] = 404
        /\ ~book_exists(coll, h_isbn[w])

\* C23: whenever a store operation raises while a request is handled, the
\* lookup of GET /books/{isbn} included, the response is 500, never 200 or
\* 404.
C23_StoreFailure500 ==
    \A w \in Workers : (pc[w] = "done" /\ raised[w]) => resp[w] = 500

ManualOps == {w \in Workers : req[w].op = "manual"}

\* the body of a manual add lacks isbn, title or authors, or holds an empty
\* one, or its isbn fails format validation
manual_rejected(w) ==
    LET body == req[w].body
    IN  \/ \E f \in {"isbn", "title", "authors"} : f \notin DOMAIN body
        \/ body.isbn = <<>>
        \/ body.title = <<>>
        \/ body.authors \in {[list |-> <<>>], [str |-> <<>>]}
        \/ ~validate_isbn(strip(body.isbn))

\* C24: a manual add never calls the catalog fetcher; it answers 400 when
\* isbn, title or authors is missing or empty or the ISBN fails validation,
\* 409 when the ISBN is already stored, and otherwise (no store call having
\* raised) inserts one record carrying the supplied isbn, title and authors
\* and answers 201; in every outcome other than 201 it has not changed the
\* collection.
C24_ManualAddOutcomes ==
    \A w \in ManualOps :
        /\ fetched[w] = "none"
        /\ \A i \in 1..Len(trace[w]) :
              trace[w][i] # "GoogleBooksService.get_book_by_isbn"
        /\ (pc[w] # "validate" /\ manual_rejected(w)) => resp[w] = 400
        /\ resp[w] = 400 => manual_rejected(w)
        /\ exists[w] => resp[w] = 409
        /\ resp[w] = 409 => exists[w]
        /\ (pc[w] = "done" /\ ~manual_rejected(w) /\ ~exists[w] /\ ~raised[w]) =>
              resp[w] = 201
        /\ resp[w] = 201 =>
              /\ success[w] = "True" /\ wrote[w] = 1
              /\ book_data[w].isbn = strip(req[w].body.isbn)
              /\ book_data[w].title = strip(req[w].body.title)
              /\ book_data[w].authors =
                    IF "list" \in DOMAIN req[w].body.authors
                    THEN req[w].body.authors.list
                    ELSE <<req[w].body.authors.str>>
        /\ resp[w] # 201 => wrote[w] = 0

IsbnSet(c) == {c[i].isbn : i \in 1..Len(c)}

\* C27: the set of ISBNs in the collection is changed only by a successful
\* add, which adds exactly its one ISBN, and by a successful delete, which
\* removes exactly its one; an update, a status change or a lookup never
\* creates or removes a record, and an update or status change for an ISBN
\* that was deleted in the meantime does not create it again.
C27_IsbnSetFrame ==
    [][(IsbnSet(coll') # IsbnSet(coll) \/ Len(coll') # Len(coll)) =>
          \/ \E w \in Workers :
                /\ Called(w, "add_book") /\ success'[w] = "True"
                /\ book_data[w].isbn \notin IsbnSet(coll)
                /\ IsbnSet(coll') = IsbnSet(coll) \cup {book_data[w].isbn}
                /\ Len(coll') = Len(coll) + 1
          \/ \E w \in Workers :
                /\ Called(w, "delete_book") /\ success'[w] = "True"
                /\ h_isbn[w] \in IsbnSet(coll)
                /\ IsbnSet(coll') = IsbnSet(coll) \ {h_isbn[w]}
                /\ Len(coll') = Len(coll) - 1]_vars

\* an update or a status change found its book at the existence check, the
\* book was deleted before its write, and the write did not create it
C27_Witness ==
    \E w \in Workers :
        /\ req[w].op \in {"put", "status"}
        /\ exists[w] /\ success[w] = "False" /\ ~raised[w]
        /\ ~book_exists(coll, h_isbn[w])

(***************************************************************************)
(* The contract of the statistics and of the read handlers while other     *)
(* requests write                                                          *)
(***************************************************************************)
\* the records of c whose reading_status is status
WithStatus(c, status) ==
    {i \in 1..Len(c) :
        "reading_status" \in DOMAIN c[i] /\ c[i].reading_status = status}

\* the records of c that have no reading_status field
Lacking(c) == {i \in 1..Len(c) : "reading_status" \notin DOMAIN c[i]}

\* hundredths is count/total*100 rounded to two decimals: 0 for no total,
\* otherwise no further than half a hundredth from the quotient
Rounded(hundredths, count, total) ==
    IF total = 0 THEN hundredths = 0
    ELSE LET d == hundredths * total - count * 10000
         IN  2 * d <= total /\ -(2 * d) <= total

\* a statistics response for a collection nobody wrote to meanwhile
StatisticsUnmodified == s_pc = "done" /\ s_resp = 200 /\ ~s_modified

\* statistics reports the collection c as the claim describes
Reports(statistics, c) ==
    /\ statistics.total_books = Len(c)
    /\ statistics.read = Cardinality(WithStatus(c, "read"))
    /\ statistics.in_progress = Cardinality(WithStatus(c, "in_progress"))
    /\ statistics.unread =
          Cardinality(WithStatus(c, "unread")) + Cardinality(Lacking(c))
    /\ Rounded(statistics.reading_percentage, statistics.read, Len(c))
    /\ Rounded(statistics.progress_percentage, statistics.in_progress, Len(c))

\* C21: on a collection that is not being modified the statistics report
\* total = the number of records, read and in_progress = the numbers with
\* those statuses, unread = the number with status unread plus the number
\* of records lacking a reading_status field, and the two percentages as 0
\* for an empty collection and count/total*100 rounded to two decimals
\* otherwise.
C21_StatisticsOfCollection == StatisticsUnmodified => Reports(s_stats, coll)

\* C25: in every statistics response total_books, read, unread and
\* in_progress are each >= 0, also when other requests insert, delete or
\* change the status of records between the four count queries.
C25_CountsNotNegative ==
    (s_pc = "done" /\ s_resp = 200) =>
        /\ s_stats.total_books >= 0
        /\ s_stats.read >= 0
        /\ s_stats.unread >= 0
        /\ s_stats.in_progress >= 0

\* C26: in every paginated response count <= total, and page <= total_pages
\* whenever count > 0, also when other requests add or delete records
\* between the page query and the count query of the request.
C26_CountWithinTotal ==
    (q_pc = "done" /\ q_resp = 200 /\ q_req.route \in PagedRoutes /\ ~q_failed) =>
        /\ q_page.count <= q_page.total
        /\ q_page.count > 0 => q_page.page <= q_page.total_pages

====
